---- MODULE Spec2Model ----
(***************************************************************************)
(* A model of metrics/top_k_distance.py: the TopKDistance object, one call *)
(* of it (validation, aggregation, distance matrix, diagonal ranks,        *)
(* scores), and the properties the specification states about it.          *)
(*                                                                         *)
(* Numbers.  Tensor entries are integers.  A value the code computes in    *)
(* floating point is kept exactly, as a fraction <<num, den>>:             *)
(*   den > 0          the finite value num/den                             *)
(*   <<1, 0>>, <<-1, 0>>   +inf, -inf        <<0, 0>>   NaN                 *)
(* The only use the code makes of the distance matrix is to sort each of   *)
(* its columns (line 149), so an entry is kept as a strictly increasing    *)
(* image of the distance where the distance itself is irrational (the      *)
(* square of an L2 norm, the cube of an L3 norm, one minus the signed      *)
(* square of a cosine): the order of any two entries is the code's.        *)
(***************************************************************************)
EXTENDS Integers, Sequences, FiniteSets, TLC

VARIABLES
    method,      \* self.method
    aggregate,   \* self.aggregate
    pc,          \* where the call is: idle, aggregate, distance, ranks, score, returned, raised
    arr1,        \* the call's arr1 (replaced by its aggregate at line 108)
    arr2,        \* the call's arr2 (replaced by its aggregate at line 110)
    k_range,     \* the call's k_range
    matrix,      \* the comparison matrix of line 112
    ranks,       \* the diagonal ranks of line 115
    dict_score,  \* the returned dict, as its items in insertion order
    error        \* the exception that ended the call, or "none"

vars == <<method, aggregate, pc, arr1, arr2, k_range, matrix, ranks, dict_score, error>>

\* A local that is not bound (yet): a sequence, and a tensor.
Null == <<>>
NoTensor == [ndim |-> 0, data |-> <<>>]

-----------------------------------------------------------------------------
(* Bounds of the model *)

\* Spec: the largest item count of a rank-2 input collection.
MaxN == 2
\* SpecRanks: the largest dimension of a matrix, and its largest entry.
MaxDim == 2
MaxDist == 2
\* SpecScore: the largest item count, and the longest k_range.
MaxItems == 5
MaxKLen == 2

-----------------------------------------------------------------------------
(* Arithmetic *)

Abs(x) == IF x < 0 THEN -x ELSE x

Sgn(x) == IF x < 0 THEN -1 ELSE IF x > 0 THEN 1 ELSE 0

RECURSIVE GCD(_, _)
GCD(a, b) == IF b = 0 THEN a ELSE GCD(b, a % b)

\* The fraction n/d in lowest terms, d > 0.
Frac(n, d) ==
    LET g == GCD(Abs(n), d) IN <<n \div g, d \div g>>

IsFinite(x) == x[2] > 0

\* x < y in the order torch.sort uses: -inf < finite < +inf < NaN.
Class(x) == IF x[2] > 0 THEN 2 ELSE IF x[1] < 0 THEN 1 ELSE IF x[1] > 0 THEN 3 ELSE 4
Less(x, y) ==
    IF IsFinite(x) /\ IsFinite(y) THEN x[1] * y[2] < y[1] * x[2]
    ELSE Class(x) < Class(y)

Leq(x, y) == ~Less(y, x)

RECURSIVE SumSeq(_)
SumSeq(s) == IF s = <<>> THEN 0 ELSE Head(s) + SumSeq(Tail(s))

RECURSIVE ProdSeq(_)
ProdSeq(s) == IF s = <<>> THEN 1 ELSE Head(s) * ProdSeq(Tail(s))

RECURSIVE MaxSeq(_)
MaxSeq(s) ==
    IF Len(s) = 1 THEN Head(s)
    ELSE LET m == MaxSeq(Tail(s)) IN IF Head(s) > m THEN Head(s) ELSE m

RECURSIVE Pow(_, _)
Pow(b, e) == IF e = 0 THEN 1 ELSE b * Pow(b, e - 1)

\* The integer part of the s-th root of p.
IntRoot(p, s) == CHOOSE r \in 0..p : Pow(r, s) <= p /\ p < Pow(r + 1, s)

-----------------------------------------------------------------------------
(* Tensors: [ndim, data], data nested ndim deep.  A rank-2 tensor is a       *)
(* sequence of rows, a rank-3 tensor a sequence of groups of sample rows.    *)

Tensor(n, d) == [ndim |-> n, data |-> d]

\* shape[0].
NumItems(t) == Len(t.data)

\* The rows of the rank-2 input collections: the zero vector (of norm 0, and
\* constant) and a vector that is neither.
Rows == {<<0, 0>>, <<2, 0>>}

Tensors2 ==
    UNION {{Tensor(2, d) : d \in [1..n -> Rows]} : n \in 1..MaxN}

\* The groups of the rank-3 input collections, two samples each, on which the
\* three aggregations differ.
Groups == {<<<<2, 8>>, <<8, 2>>>>, <<<<2, 8>>, <<0, 2>>>>}

Tensors3 ==
    {Tensor(3, <<g>>) : g \in Groups} \cup
    {Tensor(3, <<p[1], p[2]>>) : p \in {q \in Groups \X Groups : q[1] # q[2]}}

\* Tensors of a rank that is neither 2 nor 3.
BadTensors == {Tensor(1, <<0, 2>>), Tensor(4, <<<<<<<<0, 2>>>>>>>>)}

Tensors == Tensors2 \cup Tensors3 \cup BadTensors

\* The collection of the docstring example (lines 88-89), in tenths.
DocExample == Tensor(2, <<<<7, 2, 1>>, <<3, 5, 2>>, <<1, 3, 6>>>>)

\* The k_range default (line 63).
DefaultKRange == <<1, 5, 10>>

-----------------------------------------------------------------------------
(* The aggregations (lines 192-211) *)

\* Column f of a group of sample rows.
Samples(group, f) == [s \in 1..Len(group) |-> group[s][f]]

\* s in ascending order.
RECURSIVE SortAsc(_)
SortAsc(s) ==
    IF s = <<>> THEN <<>>
    ELSE LET m == CHOOSE i \in 1..Len(s) : \A j \in 1..Len(s) : s[i] <= s[j]
         IN <<s[m]>> \o SortAsc([k \in 1..(Len(s) - 1) |-> IF k < m THEN s[k] ELSE s[k + 1]])

\* The features of the rows of group i of an (N, S, F) tensor.
Features(emb, i) == 1..Len(emb.data[i][1])

\* torch.mean.
MeanOf(s) == SumSeq(s) \div Len(s)
\* torch.median: the lower of the two middle values of an even count.
MedianOf(s) == SortAsc(s)[(Len(s) + 1) \div 2]
\* exp(mean(log(x + 1e-8))): the geometric mean, to the integer below it (the
\* 1e-8 is below the resolution of the model).
GeoMeanOf(s) == IntRoot(ProdSeq(s), Len(s))

_mean(emb) ==
    IF emb.ndim = 3
    THEN Tensor(2, [i \in 1..Len(emb.data) |->
                      [f \in Features(emb, i) |-> MeanOf(Samples(emb.data[i], f))]])
    ELSE emb

_median(emb) ==
    IF emb.ndim = 3
    THEN Tensor(2, [i \in 1..Len(emb.data) |->
                      [f \in Features(emb, i) |-> MedianOf(Samples(emb.data[i], f))]])
    ELSE emb

_robust_mean(emb) ==
    IF emb.ndim = 3
    THEN Tensor(2, [i \in 1..Len(emb.data) |->
                      [f \in Features(emb, i) |-> GeoMeanOf(Samples(emb.data[i], f))]])
    ELSE emb

\* self._aggregs (lines 56-60): the accepted names, and the dispatch.
_aggregs == {"mean", "median", "robust_mean"}

Aggregated(name, emb) ==
    CASE name = "mean" -> _mean(emb)
      [] name = "median" -> _median(emb)
      [] name = "robust_mean" -> _robust_mean(emb)

-----------------------------------------------------------------------------
(* The distances (lines 162-188).  a is arr1[i], b is arr2[j].             *)

Diff(a, b) == [f \in 1..Len(a) |-> Abs(a[f] - b[f])]
Dot(a, b) == SumSeq([f \in 1..Len(a) |-> a[f] * b[f]])
\* Len(a) * (a - mean(a)): the centered vector, scaled to stay integral.
Centered(a) == [f \in 1..Len(a) |-> Len(a) * a[f] - SumSeq(a)]

\* Each method but _correlation returns the (N, M) matrix of its cell of
\* (arr1[i], arr2[j]).

\* The square of the L2 norm of the difference.
EuclideanCell(a, b) == <<SumSeq([f \in 1..Len(a) |-> Diff(a, b)[f] * Diff(a, b)[f]]), 1>>
_euclidean(a1, a2) ==
    [i \in 1..NumItems(a1) |-> [j \in 1..NumItems(a2) |-> EuclideanCell(a1.data[i], a2.data[j])]]

\* 1 - cos, as 1 - sgn(cos) cos^2.  cosine_similarity divides by the norms
\* clamped to eps = 1e-8 from below: the similarity to a zero vector is 0.
CosineCell(a, b) ==
    LET d == Dot(a, b)
        n == Dot(a, a) * Dot(b, b)
    IN IF n = 0 THEN <<1, 1>> ELSE Frac(n - Sgn(d) * d * d, n)
_cosine(a1, a2) ==
    [i \in 1..NumItems(a1) |-> [j \in 1..NumItems(a2) |-> CosineCell(a1.data[i], a2.data[j])]]

\* 1 - x / n1 / n2 for the centered dot product x and the norms n1, n2 (given
\* by their squares), as 1 - sgn(x) x^2 / (n1 n2)^2, with IEEE division by 0.
CorrelationCell(x, sq1, sq2) ==
    IF sq2 = 0 THEN <<0, 0>>
    ELSE IF sq1 = 0 THEN <<-Sgn(x), 0>>
    ELSE Frac(sq1 * sq2 - Sgn(x) * x * x, sq1 * sq2)

\* Line 176 divides the (N, M) matrix of dot products by the N norms of arr1
\* and then by the M norms of arr2; broadcasting aligns both with the LAST
\* axis, the columns.  It fails unless N = M, N = 1 or M = 1, and for M = 1 < N
\* the quotient is an (N, N) matrix.
CorrelationBroadcasts(a1, a2) ==
    NumItems(a1) = NumItems(a2) \/ NumItems(a1) = 1 \/ NumItems(a2) = 1

_correlation(a1, a2) ==
    LET N == NumItems(a1)
        M == NumItems(a2)
        c1(i) == Centered(a1.data[i])
        c2(j) == Centered(a2.data[j])
        J1(j) == IF N = 1 THEN 1 ELSE j
        J2(j) == IF M = 1 THEN 1 ELSE j
    IN [i \in 1..N |-> [j \in 1..(IF M = 1 THEN N ELSE M) |->
          CorrelationCell(Dot(c1(i), c2(J2(j))),
                          Dot(c1(J1(j)), c1(J1(j))),
                          Dot(c2(J2(j)), c2(J2(j))))]]

ChebyshevCell(a, b) == <<MaxSeq(Diff(a, b)), 1>>
_chebyshev(a1, a2) ==
    [i \in 1..NumItems(a1) |-> [j \in 1..NumItems(a2) |-> ChebyshevCell(a1.data[i], a2.data[j])]]

\* The cube of the L3 norm of the difference (p = 3, line 183).
MinkowskiCell(a, b) == <<SumSeq([f \in 1..Len(a) |-> Pow(Diff(a, b)[f], 3)]), 1>>
_minkowski(a1, a2) ==
    [i \in 1..NumItems(a1) |-> [j \in 1..NumItems(a2) |-> MinkowskiCell(a1.data[i], a2.data[j])]]

CityblockCell(a, b) == <<SumSeq(Diff(a, b)), 1>>
_cityblock(a1, a2) ==
    [i \in 1..NumItems(a1) |-> [j \in 1..NumItems(a2) |-> CityblockCell(a1.data[i], a2.data[j])]]

\* self._methods (lines 48-55): the accepted names, and the dispatch.
_methods == {"euclidean", "cosine", "correlation", "chebyshev", "minkowski", "cityblock"}

Distances(name, a1, a2) ==
    CASE name = "euclidean" -> _euclidean(a1, a2)
      [] name = "cosine" -> _cosine(a1, a2)
      [] name = "correlation" -> _correlation(a1, a2)
      [] name = "chebyshev" -> _chebyshev(a1, a2)
      [] name = "minkowski" -> _minkowski(a1, a2)
      [] name = "cityblock" -> _cityblock(a1, a2)

-----------------------------------------------------------------------------
(* The rank extractor (lines 131-158) *)

Column(m, j) == [i \in 1..Len(m) |-> m[i][j]]

\* Whether torch.sort(descending=True) may put value x before value y.
Precedes(x, y) == Leq(y, x)

\* The orders in which torch.sort may return the indices S of column col.  The
\* sort is not stable (stable=False is the default): equal entries come out in
\* any order.
RECURSIVE SortIndices(_, _)
SortIndices(col, S) ==
    IF S = {} THEN {<<>>}
    ELSE UNION {{<<m>> \o o : o \in SortIndices(col, S \ {m})} :
                m \in {x \in S : \A y \in S : Precedes(col[x], col[y])}}

\* (order == i).nonzero()[0].item(): the 0-based position of i.
NonzeroItem(order, i) == (CHOOSE k \in 1..Len(order) : order[k] = i) - 1

\* Mutant of RankOf: the 0-based position, without the + 1 of line 156.
RankOfZeroBased(order, i) == NonzeroItem(order, i)

\* Line 156: the value stored in ranks[i].
RankOf(order, i) == NonzeroItem(order, i) + 1

\* The values line 156 may store in ranks[i].
RanksOfItem(m, i) == {RankOf(o, i) : o \in SortIndices(Column(m, i), 1..Len(m))}

\* The sequences whose i-th entry is drawn from sets[i].
RECURSIVE Choices(_)
Choices(sets) ==
    IF sets = <<>> THEN {<<>>}
    ELSE {<<x>> \o rest : x \in Head(sets), rest \in Choices(Tail(sets))}

\* Mutant of LoopRange: the loop runs over the columns the matrix has.
LoopRangeColumns(m) == 1..(IF Len(m) < Len(m[1]) THEN Len(m) ELSE Len(m[1]))

\* range(matrix.shape[0]) of line 155, 1-based.
LoopRange(m) == 1..Len(m)

\* Whether the loop of line 155 indexes a column the matrix does not have.
ColumnMissing(m) == \E i \in LoopRange(m) : i > Len(m[1])

\* The rank vectors _compute_diag_ranks may return: zeros (line 152) with the
\* entries of the loop's range set.
_compute_diag_ranks(m) ==
    Choices([i \in 1..Len(m) |-> IF i \in LoopRange(m) THEN RanksOfItem(m, i) ELSE {0}])

-----------------------------------------------------------------------------
(* The scores (lines 117-130) *)

\* 'top' + str(k), and the two other keys.
TopKey(k) == <<"top", k>>
MeanRanksKey == <<"mean_ranks">>
ExactMatchingKey == <<"exact_matching">>

\* d[key] = value on a dict kept as its items in insertion order.
DictSet(d, key, value) ==
    IF \E i \in 1..Len(d) : d[i][1] = key
    THEN [i \in 1..Len(d) |-> IF d[i][1] = key THEN <<key, value>> ELSE d[i]]
    ELSE Append(d, <<key, value>>)

DictKeys(d) == [i \in 1..Len(d) |-> d[i][1]]
DictGet(d, key) == d[CHOOSE i \in 1..Len(d) : d[i][1] = key][2]
DictHas(d, key) == \E i \in 1..Len(d) : d[i][1] = key

\* Mutant of NumberValues: the threshold rounded to the nearest integer.
NumberValuesRounded(n, k) == <<(n * k + 50) \div 100, 1>>

\* Line 121: shape[0] * (k / 100).
NumberValues(n, k) == Frac(n * k, 100)

\* Mutant of WithinValues: the comparison turned around.
WithinValuesFlipped(rank, number_values) == Leq(number_values, <<rank, 1>>)

\* Line 122: ranks <= number_values.
WithinValues(rank, number_values) == Leq(<<rank, 1>>, number_values)

\* Lines 121-123: the score of one k.
TopScore(r, n, k) ==
    LET number_values == NumberValues(n, k)
        count == Cardinality({i \in 1..Len(r) : WithinValues(r[i], number_values)})
    IN Frac(count * 100, n)

\* Mutant of MeanRanksScore: the mean rank not divided by shape[0].
MeanRanksUnnormalised(r, n) == Frac(SumSeq(r) * 100, Len(r))

\* Lines 117 and 126.
MeanRanksScore(r, n) == Frac(SumSeq(r) * 100, Len(r) * n)

\* Line 128: ranks == 0.
ExactTest(rank) == rank = 0

\* Lines 128-129.
ExactMatchingScore(r, n) == Frac(Cardinality({i \in 1..Len(r) : ExactTest(r[i])}) * 100, n)

\* The loop of lines 120-124.
RECURSIVE TopScores(_, _, _, _)
TopScores(d, ks, r, n) ==
    IF ks = <<>> THEN d
    ELSE TopScores(DictSet(d, TopKey(Head(ks)), TopScore(r, n, Head(ks))), Tail(ks), r, n)

\* Lines 118-130: the dict returned for ranks r, matrix m and k_range ks.
Scores(r, m, ks) ==
    LET n == Len(m)
        tops == TopScores(<<>>, ks, r, n)
        withMean == DictSet(tops, MeanRanksKey, MeanRanksScore(r, n))
    IN DictSet(withMean, ExactMatchingKey, ExactMatchingScore(r, n))

-----------------------------------------------------------------------------
(* The object and one call of it *)

\* Names no dict of the constructor holds.
UnknownMethods == {"manhattan"}
UnknownAggregs == {"max"}

\* The k_range lists of the calls of Spec.
CallKRanges == {DefaultKRange, <<100, 50, 100>>}

\* The (arr1, arr2) pairs of the calls of Spec.
CallPairs == (Tensors \X Tensors) \cup {<<DocExample, DocExample>>}

\* Mutant of EntryError: the names are not checked at entry, only looked up
\* when used.
EntryErrorShapesOnly(m, ag, a1, a2) ==
    IF a1.ndim \notin {2, 3} THEN "ValueError(arr1)"
    ELSE IF a2.ndim \notin {2, 3} THEN "ValueError(arr2)"
    ELSE "none"

\* Lines 94-104: the error the checks at the call's entry raise, or "none".
EntryError(m, ag, a1, a2) ==
    IF m \notin _methods THEN "ValueError(method)"
    ELSE IF ag \notin _aggregs THEN "ValueError(aggregate)"
    ELSE IF a1.ndim \notin {2, 3} THEN "ValueError(arr1)"
    ELSE IF a2.ndim \notin {2, 3} THEN "ValueError(arr2)"
    ELSE "none"

\* __init__ (lines 45-60): the names are stored unchecked.
Init ==
    /\ method \in _methods \cup UnknownMethods
    /\ aggregate \in _aggregs \cup UnknownAggregs
    /\ pc = "idle"
    /\ arr1 = NoTensor
    /\ arr2 = NoTensor
    /\ k_range = Null
    /\ matrix = Null
    /\ ranks = Null
    /\ dict_score = <<>>
    /\ error = "none"

\* __call__ is entered and runs its checks (lines 63, 94-104).
Call(a1, a2, ks) ==
    /\ pc = "idle"
    /\ arr1' = a1
    /\ arr2' = a2
    /\ k_range' = ks
    /\ error' = EntryError(method, aggregate, a1, a2)
    /\ pc' = IF error' = "none" THEN "aggregate" ELSE "raised"
    /\ UNCHANGED <<method, aggregate, matrix, ranks, dict_score>>

\* Lines 107-110.  self._aggregs[name] of a name the dict lacks is a KeyError.
Aggregate ==
    /\ pc = "aggregate"
    /\ IF (arr1.ndim = 3 \/ arr2.ndim = 3) /\ aggregate \notin _aggregs
       THEN /\ pc' = "raised"
            /\ error' = "KeyError"
            /\ UNCHANGED <<arr1, arr2>>
       ELSE /\ arr1' = IF arr1.ndim = 3 THEN Aggregated(aggregate, arr1) ELSE arr1
            /\ arr2' = IF arr2.ndim = 3 THEN Aggregated(aggregate, arr2) ELSE arr2
            /\ pc' = "distance"
            /\ UNCHANGED error
    /\ UNCHANGED <<method, aggregate, k_range, matrix, ranks, dict_score>>

\* The error of line 112, or "none": an unknown name, an operand the slicing
\* arr[:, None, :] and the broadcast do not take, or the broadcast of line 176.
DistanceError(m, a1, a2) ==
    IF m \notin _methods THEN "KeyError"
    ELSE IF a1.ndim # 2 \/ a2.ndim # 2 THEN "IndexError"
    ELSE IF m = "correlation" /\ ~CorrelationBroadcasts(a1, a2) THEN "RuntimeError"
    ELSE "none"

\* Line 112.
Distance ==
    /\ pc = "distance"
    /\ error' = DistanceError(method, arr1, arr2)
    /\ IF error' = "none"
       THEN /\ matrix' = Distances(method, arr1, arr2)
            /\ pc' = "ranks"
       ELSE /\ pc' = "raised"
            /\ UNCHANGED matrix
    /\ UNCHANGED <<method, aggregate, arr1, arr2, k_range, ranks, dict_score>>

\* Line 115.  indices[:, i] of a column the matrix lacks is an IndexError.
ComputeDiagRanks ==
    /\ pc = "ranks"
    /\ IF ColumnMissing(matrix)
       THEN /\ pc' = "raised"
            /\ error' = "IndexError"
            /\ UNCHANGED ranks
       ELSE /\ ranks' \in _compute_diag_ranks(matrix)
            /\ pc' = "score"
            /\ UNCHANGED error
    /\ UNCHANGED <<method, aggregate, arr1, arr2, k_range, matrix, dict_score>>

\* Lines 117-130.
Score ==
    /\ pc = "score"
    /\ dict_score' = Scores(ranks, matrix, k_range)
    /\ pc' = "returned"
    /\ UNCHANGED <<method, aggregate, arr1, arr2, k_range, matrix, ranks, error>>

Next ==
    \/ \E p \in CallPairs, ks \in CallKRanges : Call(p[1], p[2], ks)
    \/ Aggregate
    \/ Distance
    \/ ComputeDiagRanks
    \/ Score

Spec == Init /\ [][Next]_vars

-----------------------------------------------------------------------------
(* _compute_diag_ranks called on its own (it is a static method) *)

\* The square matrices of dimension 1..MaxDim with entries 0..MaxDist.
SquareMatrices ==
    UNION {[1..n -> [1..n -> {<<v, 1>> : v \in 0..MaxDist}]] : n \in 1..MaxDim}

\* The state in which line 115 is reached with matrix m and k_range ks.
AtRanks(m, ks) ==
    /\ method = "euclidean"
    /\ aggregate = "mean"
    /\ pc = "ranks"
    /\ arr1 = NoTensor
    /\ arr2 = NoTensor
    /\ k_range = ks
    /\ matrix = m
    /\ ranks = Null
    /\ dict_score = <<>>
    /\ error = "none"

InitRanks == \E m \in SquareMatrices : AtRanks(m, DefaultKRange)

NextRanks == ComputeDiagRanks

SpecRanks == InitRanks /\ [][NextRanks]_vars

-----------------------------------------------------------------------------
(* The ranks and the scores of a call, from line 115 on *)

\* The non-decreasing sequences of length n over lo..hi.  The scores are
\* counts and a sum over the rank vector, the same for every order of it.
RECURSIVE Ascending(_, _, _)
Ascending(n, lo, hi) ==
    IF n = 0 THEN {<<>>}
    ELSE UNION {{<<x>> \o rest : rest \in Ascending(n - 1, x, hi)} : x \in lo..hi}

\* An n x n matrix without ties in any column, in which t[i] - 1 entries of
\* column i are greater than entry (i, i).
MatrixOfRanks(t) ==
    LET n == Len(t)
        Others(i, j) == IF j < i THEN j ELSE j - 1
    IN [j \in 1..n |-> [i \in 1..n |->
          IF j = i THEN <<2 * (n - t[i]) + 1, 1>> ELSE <<2 * (n - Others(i, j)), 1>>]]

ScoreMatrices ==
    UNION {{MatrixOfRanks(t) : t \in Ascending(n, 1, n)} : n \in 1..MaxItems}

\* The percentages of k_range: with 5 items, the thresholds 2.5, 2.9, 3.0, 5.0.
KValues == {50, 58, 60, 100}

RECURSIVE SeqsUpTo(_, _)
SeqsUpTo(S, n) ==
    IF n = 0 THEN {<<>>}
    ELSE SeqsUpTo(S, n - 1) \cup {Append(q, x) : q \in SeqsUpTo(S, n - 1), x \in S}

KRanges == SeqsUpTo(KValues, MaxKLen) \cup {DefaultKRange}

InitScore == \E m \in ScoreMatrices, ks \in KRanges : AtRanks(m, ks)

NextScore == ComputeDiagRanks \/ Score

SpecScore == InitScore /\ [][NextScore]_vars

-----------------------------------------------------------------------------
(* The properties *)

Hundred == <<100, 1>>
Zero == <<0, 1>>

\* The rows of a rank-2 collection differ pairwise.
DistinctRows(t) ==
    \A i \in 1..NumItems(t) : \A j \in 1..NumItems(t) : i # j => t.data[i] # t.data[j]

\* The number of items whose rank is in S.
ItemsRanked(S) == Cardinality({i \in 1..Len(ranks) : ranks[i] \in S})

\* A call of method 'euclidean' on one collection as arr1 and arr2 returned.
SelfCompared ==
    /\ pc = "returned"
    /\ method = "euclidean"
    /\ arr1 = arr2
    /\ DistinctRows(arr1)

\* C1: a self-comparison of a collection of N distinct rows under 'euclidean'
\* with 100 in k_range returns top100 = 100, exact_matching = 100 and
\* mean_ranks = (1/N) * 100.
C1_Identity ==
    (SelfCompared /\ DictHas(dict_score, TopKey(100))) =>
        /\ DictGet(dict_score, TopKey(100)) = Hundred
        /\ DictGet(dict_score, ExactMatchingKey) = Hundred
        /\ DictGet(dict_score, MeanRanksKey) = Frac(100, NumItems(arr1))

\* C2: the returned exact_matching is 100 * |{i : rank[i] = 1}| / N.
C2_ExactMatchingCountsRankOne ==
    pc = "returned" =>
        DictGet(dict_score, ExactMatchingKey) = Frac(100 * ItemsRanked({1}), Len(ranks))

\* The entries of column i strictly below, and not above, entry (i, i).
Closer(m, i) == {j \in 1..Len(m) : Less(m[j][i], m[i][i])}
NotFarther(m, i) == {j \in 1..Len(m) : Leq(m[j][i], m[i][i])}

\* C3: rank[i] is 1 + the position of row i in column i sorted ascending (any
\* position among equal entries), and 1 when entry (i, i) is strictly the
\* smallest of its column.
C3_RankIsAscendingPosition ==
    pc = "score" =>
        \A i \in 1..Len(matrix) :
            /\ Cardinality(Closer(matrix, i)) + 1 <= ranks[i]
            /\ ranks[i] <= Cardinality(NotFarther(matrix, i))
            /\ (NotFarther(matrix, i) = {i} => ranks[i] = 1)

\* Every item's true match is the single closest candidate of its column.
EveryMatchClosest(m) ==
    /\ Len(m) = Len(m[1])
    /\ \A i \in 1..Len(m) : NotFarther(m, i) = {i}

\* The call of the docstring example (lines 88-91) returned.
DocExampleReturned ==
    /\ pc = "returned"
    /\ method = "euclidean"
    /\ arr1 = DocExample
    /\ arr2 = DocExample
    /\ k_range = DefaultKRange

\* C4: when every true match is the single closest candidate, top{K} = 100
\* for every K of k_range and exact_matching = 100; the docstring example
\* returns top1 = top5 = top10 = 100, mean_ranks = 100/3, exact_matching = 100.
C4_ClosestMatchScoresHundred ==
    /\ (pc = "returned" /\ EveryMatchClosest(matrix)) =>
           /\ \A x \in 1..Len(k_range) : DictGet(dict_score, TopKey(k_range[x])) = Hundred
           /\ DictGet(dict_score, ExactMatchingKey) = Hundred
    /\ DocExampleReturned =>
           /\ \A k \in {1, 5, 10} : DictGet(dict_score, TopKey(k)) = Hundred
           /\ DictGet(dict_score, MeanRanksKey) = Frac(100, 3)
           /\ DictGet(dict_score, ExactMatchingKey) = Hundred

InvalidCall ==
    /\ pc # "idle"
    /\ \/ method \notin _methods
       \/ aggregate \notin _aggregs
       \/ arr1.ndim \notin {2, 3}
       \/ arr2.ndim \notin {2, 3}

\* The tensors as they are passed to a call.
CallInputs == Tensors \cup {DocExample}

\* C6: a call with an unknown method or aggregation name, or an input of a
\* rank other than 2 or 3, ends in the error of the first failed check with
\* no stage run: no input aggregated, no matrix, no ranks, no score.
C6_EagerValidation ==
    InvalidCall =>
        /\ pc = "raised"
        /\ error = (IF method \notin _methods THEN "ValueError(method)"
                    ELSE IF aggregate \notin _aggregs THEN "ValueError(aggregate)"
                    ELSE IF arr1.ndim \notin {2, 3} THEN "ValueError(arr1)"
                    ELSE "ValueError(arr2)")
        /\ arr1 \in CallInputs /\ arr2 \in CallInputs
        /\ matrix = Null
        /\ ranks = Null
        /\ dict_score = <<>>

\* An unknown aggregation name, with a rank-3 arr1 that would need it, raised.
C6_Witness ==
    /\ pc = "raised"
    /\ method \in _methods
    /\ aggregate \notin _aggregs
    /\ arr1.ndim = 3
    /\ error = "ValueError(aggregate)"

\* s without the later occurrences of its entries.
RECURSIVE Dedup(_)
Dedup(s) ==
    IF s = <<>> THEN <<>>
    ELSE LET init == Dedup(SubSeq(s, 1, Len(s) - 1))
             last == s[Len(s)]
         IN IF \E i \in 1..Len(init) : init[i] = last THEN init ELSE Append(init, last)

C8_RankBounds ==
    pc = "score" =>
        /\ Len(ranks) = Len(matrix)
        /\ \A i \in 1..Len(ranks) : 1 <= ranks[i] /\ ranks[i] <= Len(matrix)

\* Ranks of a matrix with ties in a column: the best and the worst rank occur.
C8_Witness ==
    /\ pc = "score"
    /\ Len(matrix) > 1
    /\ \E i \in 1..Len(matrix) : \E j \in 1..Len(matrix) : i # j /\ matrix[i][i] = matrix[j][i]
    /\ \E i \in 1..Len(ranks) : ranks[i] = 1
    /\ \E i \in 1..Len(ranks) : ranks[i] = Len(matrix)

\* C9: within one call, top{K1} <= top{K2} for entries K1 <= K2 of k_range.
C9_MonotoneInK ==
    pc = "returned" =>
        \A x \in 1..Len(k_range) : \A y \in 1..Len(k_range) :
            k_range[x] <= k_range[y] =>
                Leq(DictGet(dict_score, TopKey(k_range[x])), DictGet(dict_score, TopKey(k_range[y])))

\* A call returned a strictly greater score for the greater K, given first.
C9_Witness ==
    /\ pc = "returned"
    /\ Len(k_range) = 2
    /\ k_range[1] > k_range[2]
    /\ Less(DictGet(dict_score, TopKey(k_range[2])), DictGet(dict_score, TopKey(k_range[1])))

\* C10, as stated: a call of collections of N and M items, N # M, returns no
\* score report.
C10_MismatchNeverReturns ==
    pc = "returned" => NumItems(arr1) = NumItems(arr2)

\* C10, amended: a call of collections of N > M items returns no score report,
\* unless the method is 'correlation' and M = 1.
C10_MoreItemsNeverReturns ==
    pc = "returned" =>
        \/ NumItems(arr1) <= NumItems(arr2)
        \/ method = "correlation" /\ NumItems(arr2) = 1

\* A call of more items in arr1 than in arr2 ended in the rank extractor.
C10_Witness ==
    /\ pc = "raised"
    /\ error = "IndexError"
    /\ matrix # Null
    /\ NumItems(arr1) > NumItems(arr2)

====
